---- MODULE Spec2Model ----
(***************************************************************************)
(* A model of the classical steps of quantum-linear-systems:               *)
(*   - hhl_classiq_implementation.py: lcu_naive (Pauli decomposition),      *)
(*     classiq_hhl_implementation (normalisation), verification_of_result   *)
(*     (phase correction) and the __main__ driver's 20% check;              *)
(*   - vqls_qiskit_implementation.py: postprocess_solution;                 *)
(*   - aws_execution.py: check_task_status and the __main__ role loop.      *)
(*                                                                         *)
(* Numbers.  Complex numbers are pairs <<re, im>> of integers.  A float    *)
(* product with 1/2**n is kept as a numerator over the denominator 2**n,   *)
(* and a division by a Euclidean norm as a vector over the square root of  *)
(* an integer, so every value is exact: the model is the code over exact   *)
(* arithmetic, which is what binary floating point computes on the small   *)
(* integer inputs enumerated here for the products with 1/2**n.            *)
(***************************************************************************)
EXTENDS Integers, Sequences, FiniteSets, TLC

VARIABLES lcu, hhl, vor, main, post, job, poll, aws, run

vars == <<lcu, hhl, vor, main, post, job, poll, aws, run>>

(***************************************************************************)
(* Bounds of the model.                                                    *)
(***************************************************************************)
\* largest number of rows / columns of an input matrix of lcu_naive
MaxDim == 4
\* matrix and vector entries are drawn from -MaxVal..MaxVal
MaxVal == 1
\* longest vector handed to postprocess_solution / verification_of_result
MaxLen == 2
\* entries of the classical solution are drawn from -MaxSol..MaxSol
MaxSol == 5
\* largest position of a task in the device's queue
MaxQueue == 2
\* seconds_interval is the default or one of 1..MaxInterval
MaxInterval == 2
\* largest number of IAM roles the role loop runs over
MaxRoles == 2

Vals == (0 - MaxVal)..MaxVal

(***************************************************************************)
(* Complex arithmetic on pairs <<re, im>>.                                 *)
(***************************************************************************)
CZero == <<0, 0>>

CAdd(a, b) == <<a[1] + b[1], a[2] + b[2]>>

CMul(a, b) == <<a[1] * b[1] - a[2] * b[2], a[1] * b[2] + a[2] * b[1]>>

CConj(a) == <<a[1], 0 - a[2]>>

CScale(k, a) == <<k * a[1], k * a[2]>>

\* the sum of f[lo], ..., f[hi] of a function f into the complex numbers
RECURSIVE CSum(_, _, _)
CSum(f, lo, hi) == IF hi < lo THEN CZero ELSE CAdd(CSum(f, lo, hi - 1), f[hi])

\* the sum of f[lo], ..., f[hi] of a function f into the integers
RECURSIVE ISum(_, _, _)
ISum(f, lo, hi) == IF hi < lo THEN 0 ELSE ISum(f, lo, hi - 1) + f[hi]

RECURSIVE Pow2(_)
Pow2(k) == IF k <= 0 THEN 1 ELSE 2 * Pow2(k - 1)

(***************************************************************************)
(* Matrices: [shape |-> <<rows, cols>>, at |-> function on 0-based index   *)
(* pairs], as a numpy array of ndim 2.                                     *)
(***************************************************************************)
Idx(r, c) == (0..(r - 1)) \X (0..(c - 1))

Mat(r, c, f(_, _)) == [shape |-> <<r, c>>, at |-> [p \in Idx(r, c) |-> f(p[1], p[2])]]

\* np.kron
Kron(a, b) ==
    LET rb == b.shape[1]
        cb == b.shape[2]
        E(i, j) == CMul(a.at[<<i \div rb, j \div cb>>], b.at[<<i % rb, j % cb>>])
    IN Mat(a.shape[1] * rb, a.shape[2] * cb, E)

\* m.conjugate().transpose()
ConjTranspose(m) ==
    LET E(i, j) == CConj(m.at[<<j, i>>])
    IN Mat(m.shape[2], m.shape[1], E)

\* m.transpose(): the conjugation forgotten
TransposeOnly(m) ==
    LET E(i, j) == m.at[<<j, i>>]
    IN Mat(m.shape[2], m.shape[1], E)

\* np.dot of two matrices
Dot(a, b) ==
    LET E(i, j) == CSum([k \in 0..(a.shape[2] - 1) |-> CMul(a.at[<<i, k>>], b.at[<<k, j>>])],
                        0, a.shape[2] - 1)
    IN Mat(a.shape[1], b.shape[2], E)

\* m.trace()
Trace(m) == CSum([k \in 0..(m.shape[1] - 1) |-> m.at[<<k, k>>]], 0, m.shape[1] - 1)

(***************************************************************************)
(* hhl_classiq_implementation.py: the Pauli decomposition.                 *)
(***************************************************************************)
Paulidict ==
    [I |-> Mat(2, 2, LAMBDA i, j: IF i = j THEN <<1, 0>> ELSE CZero),
     Z |-> Mat(2, 2, LAMBDA i, j: IF i # j THEN CZero ELSE IF i = 0 THEN <<1, 0>> ELSE <<-1, 0>>),
     X |-> Mat(2, 2, LAMBDA i, j: IF i = j THEN CZero ELSE <<1, 0>>),
     Y |-> Mat(2, 2, LAMBDA i, j: IF i = j THEN CZero ELSE IF i = 0 THEN <<0, -1>> ELSE <<0, 1>>)]

\* the seq argument "IZXY" of generate_all_pauli_strings
PauliSeq == <<"I", "Z", "X", "Y">>

\* list(generate_all_pauli_strings(seq, n)): itertools.product(seq, repeat=n) in its
\* order, the first letter varying slowest; product(seq, repeat=0) is one empty string
RECURSIVE generate_all_pauli_strings(_, _)
generate_all_pauli_strings(seq, n) ==
    IF n <= 0 THEN << <<>> >>
    ELSE LET rest == generate_all_pauli_strings(seq, n - 1)
             L == Len(rest)
         IN [k \in 1..(Len(seq) * L) |-> <<seq[((k - 1) \div L) + 1]>> \o rest[((k - 1) % L) + 1]]

\* pauli_string_2mat of a non-empty string (seq[0] of an empty one raises IndexError)
RECURSIVE KronFrom(_, _, _)
KronFrom(p_matrix, seq, k) ==
    IF k > Len(seq) THEN p_matrix
    ELSE KronFrom(Kron(p_matrix, Paulidict[seq[k]]), seq, k + 1)

pauli_string_2mat(seq) == KronFrom(Paulidict[seq[1]], seq, 2)

hilbert_schmidt_no_conj(m1, m2) == Trace(Dot(TransposeOnly(m1), m2))

hilbert_schmidt(m1, m2) == Trace(Dot(ConjTranspose(m1), m2))

\* hm.shape[0] & (hm.shape[0] - 1), on naturals (the code reaches it with shape[0] >= 1)
RECURSIVE BitAnd(_, _)
BitAnd(a, b) ==
    IF a = 0 \/ b = 0 THEN 0
    ELSE 2 * BitAnd(a \div 2, b \div 2) + (IF a % 2 = 1 /\ b % 2 = 1 THEN 1 ELSE 0)

\* int(np.log2(d))
RECURSIVE Log2(_)
Log2(d) == IF d <= 1 THEN 0 ELSE 1 + Log2(d \div 2)

\* the three shape assertions of lcu_naive, in their order: the message of the first
\* that fails, "" when all pass
ShapeAssertNoPow2(shape) ==
    IF shape[1] # shape[2] THEN "matrix is not square"
    ELSE IF shape[1] = 0 THEN "matrix is of size 0"
    ELSE ""

ShapeAssert(shape) ==
    IF shape[1] # shape[2] THEN "matrix is not square"
    ELSE IF shape[1] = 0 THEN "matrix is of size 0"
    ELSE IF BitAnd(shape[1], shape[1] - 1) # 0 THEN "matrix size is not 2**n"
    ELSE ""

\* co = (1 / 2**n) * hilbert_schmidt(pauli_string_2mat(pstr), hm): the trace over 2**n
Coefficient(pstr, hm, n) ==
    [num |-> hilbert_schmidt(pauli_string_2mat(pstr), hm), den |-> Pow2(n)]

\* co != 0
NonZero(co) == co.num # CZero

\* lines 99-101, one iteration of the loop: mylist after it
LcuLoopBody(mylist, pstr, hm, n) ==
    LET co == Coefficient(pstr, hm, n)
    IN IF NonZero(co) THEN mylist \o << <<pstr, co>> >> ELSE mylist

\* mylist after the loop has run over pauli_strings[1..k]
RECURSIVE LcuLoop(_, _, _, _)
LcuLoop(pauli_strings, hm, n, k) ==
    IF k = 0 THEN <<>>
    ELSE LcuLoopBody(LcuLoop(pauli_strings, hm, n, k - 1), pauli_strings[k], hm, n)

(***************************************************************************)
(* The inputs of lcu_naive: Hermitian matrices of dimension 1, 2, 4, ...   *)
(* built from two Hermitian units, and constant matrices of every shape.   *)
(***************************************************************************)
\* the u-th Hermitian unit of dimension d, u in 0..d*d-1: a diagonal one, a real
\* symmetric pair or an imaginary antisymmetric pair
HermUnit(d, u) ==
    LET r == u \div d
        c == u % d
        E(i, j) == IF r = c THEN (IF i = r /\ j = r THEN <<1, 0>> ELSE CZero)
                   ELSE IF r < c THEN (IF (i = r /\ j = c) \/ (i = c /\ j = r) THEN <<1, 0>> ELSE CZero)
                   ELSE IF i = c /\ j = r THEN <<0, 1>>
                   ELSE IF i = r /\ j = c THEN <<0, -1>>
                   ELSE CZero
    IN Mat(d, d, E)

HermTwo(d, a, u1, b, u2) ==
    LET E(i, j) == CAdd(CScale(a, HermUnit(d, u1).at[<<i, j>>]), CScale(b, HermUnit(d, u2).at[<<i, j>>]))
    IN Mat(d, d, E)

PowersOfTwo == {Pow2(k) : k \in 0..MaxDim} \cap (1..MaxDim)

ConstMat(r, c, v) == Mat(r, c, LAMBDA i, j: <<v, 0>>)

IsHermitian(m) ==
    /\ m.shape[1] = m.shape[2]
    /\ \A p \in DOMAIN m.at : m.at[<<p[2], p[1]>>] = CConj(m.at[p])

(***************************************************************************)
(* lcu_naive as a process: pc start -> asserted -> loop -> returned, or    *)
(* raised with the exception in raised.                                    *)
(***************************************************************************)
LcuIdle == [pc |-> "idle", hm |-> ConstMat(0, 0, 0), n |-> 0, pauli_strings |-> <<>>,
            k |-> 0, mylist |-> <<>>, raised |-> ""]

LcuStart(hm) == [LcuIdle EXCEPT !.pc = "start", !.hm = hm]

\* lines 89-91
LcuAssertShape ==
    /\ lcu.pc = "start"
    /\ LET msg == ShapeAssert(lcu.hm.shape)
       IN lcu' = IF msg = "" THEN [lcu EXCEPT !.pc = "asserted"]
                 ELSE [lcu EXCEPT !.pc = "raised", !.raised = "AssertionError: " \o msg]
    /\ UNCHANGED <<hhl, vor, main, post, job, poll, aws, run>>

\* lines 93-96
LcuEnumerate ==
    /\ lcu.pc = "asserted"
    /\ LET n == Log2(lcu.hm.shape[1])
       IN lcu' = [lcu EXCEPT !.pc = "loop", !.n = n,
                             !.pauli_strings = generate_all_pauli_strings(PauliSeq, n),
                             !.k = 0, !.mylist = <<>>]
    /\ UNCHANGED <<hhl, vor, main, post, job, poll, aws, run>>

\* lines 98-101: one iteration; pauli_string_2mat("") raises IndexError at seq[0]
LcuLoopStep ==
    /\ lcu.pc = "loop"
    /\ lcu.k < Len(lcu.pauli_strings)
    /\ LET pstr == lcu.pauli_strings[lcu.k + 1]
       IN IF Len(pstr) = 0
          THEN lcu' = [lcu EXCEPT !.pc = "raised", !.raised = "IndexError"]
          ELSE lcu' = [lcu EXCEPT !.k = lcu.k + 1,
                                  !.mylist = LcuLoopBody(lcu.mylist, pstr, lcu.hm, lcu.n)]
    /\ UNCHANGED <<hhl, vor, main, post, job, poll, aws, run>>

\* line 103
LcuReturn ==
    /\ lcu.pc = "loop"
    /\ lcu.k = Len(lcu.pauli_strings)
    /\ lcu' = [lcu EXCEPT !.pc = "returned"]
    /\ UNCHANGED <<hhl, vor, main, post, job, poll, aws, run>>

(***************************************************************************)
(* Claims about lcu_naive (SpecLcu).                                       *)
(***************************************************************************)
\* D times the sum of coefficient * pauli_string_2mat(string) over the pairs of mylist,
\* at entry p; every denominator divides D
RecombinedTimes(D, mylist, p) ==
    CSum([k \in 1..Len(mylist) |->
             CScale(D \div mylist[k][2].den,
                    CMul(mylist[k][2].num, pauli_string_2mat(mylist[k][1]).at[p]))],
         1, Len(mylist))

\* C1: for a Hermitian matrix of dimension 2^n, n >= 1, the pairs lcu_naive returns
\* recombine to the matrix, sum of coefficient * pauli_string_2mat(string) = M, entry
\* by entry; every returned coefficient is one over 2^n and non-zero, so the dropped
\* terms are exactly those that contribute nothing
C1_Reconstructs ==
    (lcu.pc = "returned" /\ IsHermitian(lcu.hm) /\ lcu.n >= 1) =>
        /\ \A k \in 1..Len(lcu.mylist) :
              lcu.mylist[k][2].den = Pow2(lcu.n) /\ lcu.mylist[k][2].num # CZero
        /\ \A p \in DOMAIN lcu.hm.at :
              RecombinedTimes(Pow2(lcu.n), lcu.mylist, p) = CScale(Pow2(lcu.n), lcu.hm.at[p])

\* a returned decomposition of a 4 x 4 Hermitian matrix with a complex entry, in which
\* some Pauli strings were dropped and at least two kept
C1_Witness ==
    /\ lcu.pc = "returned"
    /\ IsHermitian(lcu.hm)
    /\ lcu.n = 2
    /\ Len(lcu.mylist) >= 2
    /\ Len(lcu.mylist) < Len(lcu.pauli_strings)
    /\ \E p \in DOMAIN lcu.hm.at : lcu.hm.at[p][2] # 0

\* the shapes the decomposition must reject
NonSquare(shape) == shape[1] # shape[2]

ZeroSize(shape) == shape[1] = 0 \/ shape[2] = 0

NotPowerOfTwo(shape) == shape[1] = shape[2] /\ \A e \in 0..shape[1] : shape[1] # Pow2(e)

MustReject(shape) == NonSquare(shape) \/ ZeroSize(shape) \/ NotPowerOfTwo(shape)

\* C2: a non-square matrix, a matrix of size zero and a square matrix whose dimension
\* is not a power of two are rejected by a failed shape assertion before any Pauli
\* string is enumerated or any coefficient computed, and never yield a decomposition
C2_RejectsBadShapes ==
    MustReject(lcu.hm.shape) =>
        /\ lcu.pc \in {"start", "raised"}
        /\ lcu.pauli_strings = <<>> /\ lcu.mylist = <<>> /\ lcu.k = 0
        /\ lcu.pc = "raised" =>
              lcu.raised \in {"AssertionError: matrix is not square",
                              "AssertionError: matrix is of size 0",
                              "AssertionError: matrix size is not 2**n"}

\* a square 3 x 3 matrix was rejected for its size
C2_Witness ==
    /\ lcu.pc = "raised"
    /\ lcu.hm.shape = <<3, 3>>
    /\ lcu.raised = "AssertionError: matrix size is not 2**n"

(***************************************************************************)
(* hhl_classiq_implementation.py: classiq_hhl_implementation.              *)
(*                                                                         *)
(* Vectors are sequences of integers.  x / np.linalg.norm(v) is kept as    *)
(* [v |-> x, rad |-> NormSq(v)], the value x / sqrt(rad); rad = 0 is the   *)
(* division by a zero norm (numpy's nan / inf entries).                    *)
(***************************************************************************)
NormSq(v) == ISum([i \in 1..Len(v) |-> v[i] * v[i]], 1, Len(v))

\* precision = 4 of __main__
Precision == 4

\* lcu_naive as a whole: the list it returns, or the exception it raises
lcu_naive(hm) ==
    LET msg == ShapeAssert(hm.shape)
        n == Log2(hm.shape[1])
        pauli_strings == generate_all_pauli_strings(PauliSeq, n)
    IN IF msg # "" THEN [raised |-> "AssertionError: " \o msg, list |-> <<>>]
       ELSE IF n = 0 THEN [raised |-> "IndexError", list |-> <<>>]
       ELSE [raised |-> "", list |-> LcuLoop(pauli_strings, hm, n, Len(pauli_strings))]

\* a vector of length d with at most two non-zero entries
SparseVec(d, a, i, b, j) == [k \in 1..d |-> (IF k = i THEN a ELSE 0) + (IF k = j /\ j # i THEN b ELSE 0)]

HhlIdle == [pc |-> "idle", matrix_a |-> ConstMat(0, 0, 0), vector_b |-> <<>>,
            precision |-> 0, paulis |-> <<>>,
            b_normalized |-> [v |-> <<>>, rad |-> 1],
            A_normalized |-> [m |-> ConstMat(0, 0, 0), rad |-> 1],
            sp |-> [v |-> <<>>, rad |-> 1], qpe |-> <<>>,
            w_min |-> [num |-> 0, den |-> 1], raised |-> ""]

HhlStart(matrix_a, vector_b, precision) ==
    [HhlIdle EXCEPT !.pc = "start", !.matrix_a = matrix_a, !.vector_b = vector_b,
                    !.precision = precision]

\* lines 225-230: the decomposition of matrix_a; len(paulis[0][0]) of an empty list
\* raises IndexError
HhlDecompose ==
    /\ hhl.pc = "start"
    /\ LET res == lcu_naive(hhl.matrix_a)
       IN hhl' = IF res.raised # "" THEN [hhl EXCEPT !.pc = "raised", !.raised = res.raised]
                 ELSE IF res.list = <<>> THEN [hhl EXCEPT !.pc = "raised", !.raised = "IndexError"]
                 ELSE [hhl EXCEPT !.pc = "decomposed", !.paulis = res.list]
    /\ UNCHANGED <<lcu, vor, main, post, job, poll, aws, run>>

\* lines 233-238: b and A over the norm of b; state preparation takes b_normalized
HhlNormalize ==
    /\ hhl.pc = "decomposed"
    /\ LET norm2 == NormSq(hhl.vector_b)
           b_normalized == [v |-> hhl.vector_b, rad |-> norm2]
       IN hhl' = [hhl EXCEPT !.pc = "prepared",
                             !.b_normalized = b_normalized,
                             !.A_normalized = [m |-> hhl.matrix_a, rad |-> norm2],
                             !.sp = b_normalized]
    /\ UNCHANGED <<lcu, vor, main, post, job, poll, aws, run>>

\* lines 241-245: phase estimation takes paulis as its pauli_list; w_min = 1 / 2**precision
HhlQpe ==
    /\ hhl.pc = "prepared"
    /\ hhl' = [hhl EXCEPT !.pc = "qpe", !.qpe = hhl.paulis,
                          !.w_min = [num |-> 1, den |-> Pow2(hhl.precision)]]
    /\ UNCHANGED <<lcu, vor, main, post, job, poll, aws, run>>

\* lines 255-291: the model is built from sp and qpe, synthesized and returned with
\* A_normalized, b_normalized and w_min
HhlReturn ==
    /\ hhl.pc = "qpe"
    /\ hhl' = [hhl EXCEPT !.pc = "returned"]
    /\ UNCHANGED <<lcu, vor, main, post, job, poll, aws, run>>

(***************************************************************************)
(* Claims about classiq_hhl_implementation (SpecHhl).                      *)
(***************************************************************************)
\* x * sqrt(rad) = y for complex x, y with integer parts and a natural rad
EqTimesSqrt(x, rad, y) ==
    /\ CScale(rad, CMul(x, x)) = CMul(y, y)
    /\ CMul(x, CConj(y))[2] = 0
    /\ CMul(x, CConj(y))[1] >= 0

\* the vector [v, rad] = v / sqrt(rad) has norm one
IsUnitVector(bn) == bn.rad > 0 /\ NormSq(bn.v) = bn.rad

\* the pairs of list recombine to the matrix [m, rad] = m / sqrt(rad): with D the
\* common denominator, D * sum * sqrt(rad) = D * m at every entry
DecomposesScaled(list, D, an) ==
    \A p \in DOMAIN an.m.at :
        EqTimesSqrt(RecombinedTimes(D, list, p), an.rad, CScale(D, an.m.at[p]))

\* C3: b and A are scaled by the same factor 1/||b||: the vector handed to state
\* preparation is a unit vector, and the matrix whose Pauli decomposition is handed to
\* phase estimation is A/||b||, the returned A_normalized
C3_SameScaleDownstream ==
    hhl.pc = "returned" =>
        /\ hhl.sp = hhl.b_normalized
        /\ IsUnitVector(hhl.sp)
        /\ hhl.A_normalized = [m |-> hhl.matrix_a, rad |-> NormSq(hhl.vector_b)]
        /\ DecomposesScaled(hhl.qpe, Pow2(Log2(hhl.matrix_a.shape[1])), hhl.A_normalized)

(***************************************************************************)
(* hhl_classiq_implementation.py: verification_of_result from line 187 on  *)
(* (qsol as read from the state vector, divided by w_min and rounded, with *)
(* len(qsol) = len(sol_classical)), and the __main__ driver from line 312. *)
(*                                                                         *)
(* The amplitudes are real or imaginary, so np.angle is a number of        *)
(* quarter turns and np.exp(1j * angle) one of 1, i, -1, -i.               *)
(***************************************************************************)
\* np.angle(z) in quarter turns: 0, pi/2, pi, -pi/2; np.angle(0) = 0
Angle(z) ==
    IF z[2] = 0 THEN (IF z[1] >= 0 THEN 0 ELSE 2)
    ELSE IF z[2] > 0 THEN 1 ELSE -1

\* np.exp(1j * angle) for an angle in quarter turns
Exp1j(q) ==
    IF q = 0 THEN <<1, 0>>
    ELSE IF q = 1 THEN <<0, 1>>
    ELSE IF q = 2 THEN <<-1, 0>>
    ELSE <<0, -1>>

\* z / u for a u of modulus one
DivUnit(z, u) == CMul(z, CConj(u))

\* np.real
Real(z) == z[1]

\* line 188: np.angle of a list is the list of the angles
GlobalPhase(qsol) == [i \in 1..Len(qsol) |-> Angle(qsol[i])]

\* line 189: np.real(qsol / np.exp(1j * global_phase)), element by element
QsolCorrected(qsol, global_phase) ==
    [i \in 1..Len(qsol) |-> Real(DivUnit(qsol[i], Exp1j(global_phase[i])))]

\* the real and the imaginary numbers with parts in Vals
AxisAmplitudes == {<<a, 0>> : a \in Vals} \cup {<<0, a>> : a \in Vals}

\* the threshold 0.2 of line 323, as ThresholdNum / ThresholdDen
ThresholdNum == 1

ThresholdDen == 5

\* L > R * sqrt(K) for integers L, R and a natural K
GtSqrt(L, R, K) ==
    IF R = 0 \/ K = 0 THEN L > 0
    ELSE IF R > 0 THEN L > 0 /\ L * L > R * R * K
    ELSE L >= 0 \/ L * L < R * R * K

Dot1(x, y) == ISum([i \in 1..Len(x) |-> x[i] * y[i]], 1, Len(x))

\* (TooFarUnnormalized: the comparison with the two normalisations of lines 314-315
\* forgotten.)
\* line 323: np.linalg.norm(csol - qsol) / np.linalg.norm(csol) > 0.2 for csol = c / sqrt(m)
\* and qsol = q / sqrt(n).  A zero m or n makes the vector nan and the comparison
\* False.  Otherwise, with the squares taken and multiplied by m * n,
\*   |csol - qsol|^2 * m * n = (c.c) n + (q.q) m - 2 (c.q) sqrt(m n)
\*   |csol|^2 * m * n        = (c.c) n
TooFarUnnormalized(csol, qsol) ==
    LET D2 == ThresholdDen * ThresholdDen
        N2 == ThresholdNum * ThresholdNum
        diff == [i \in 1..Len(csol.v) |-> csol.v[i] - qsol.v[i]]
    IN NormSq(csol.v) > 0 /\ D2 * NormSq(diff) > N2 * NormSq(csol.v)

TooFar(csol, qsol) ==
    LET m == csol.rad
        n == qsol.rad
        cc == Dot1(csol.v, csol.v)
        qq == Dot1(qsol.v, qsol.v)
        cq == Dot1(csol.v, qsol.v)
        D2 == ThresholdDen * ThresholdDen
        N2 == ThresholdNum * ThresholdNum
    IN /\ m > 0 /\ n > 0
       /\ GtSqrt(D2 * (cc * n + qq * m) - N2 * cc * n, 2 * D2 * cq, m * n)

VorIdle == [pc |-> "idle", qsol |-> <<>>, sol_classical |-> <<>>, global_phase |-> <<>>,
            qsol_corrected |-> <<>>]

MainIdle == [pc |-> "idle", csol |-> [v |-> <<>>, rad |-> 1], qsol |-> [v |-> <<>>, rad |-> 1],
             raised |-> ""]

\* line 312: the driver calls verification_of_result with csol
MainStart(csol) == [MainIdle EXCEPT !.pc = "verifying", !.csol = [v |-> csol, rad |-> 1]]

VorStart(qsol, csol) == [VorIdle EXCEPT !.pc = "first", !.qsol = qsol, !.sol_classical = csol]

\* lines 187-188
VorPhase ==
    /\ vor.pc = "first"
    /\ vor' = [vor EXCEPT !.pc = "phase", !.global_phase = GlobalPhase(vor.qsol)]
    /\ UNCHANGED <<lcu, hhl, main, post, job, poll, aws, run>>

\* line 189
VorCorrect ==
    /\ vor.pc = "phase"
    /\ vor' = [vor EXCEPT !.pc = "corrected",
                          !.qsol_corrected = QsolCorrected(vor.qsol, vor.global_phase)]
    /\ UNCHANGED <<lcu, hhl, main, post, job, poll, aws, run>>

\* lines 190-199 and 312: the prints, and qsol_corrected returned to the driver
VorReturn ==
    /\ vor.pc = "corrected"
    /\ main.pc = "verifying"
    /\ vor' = [vor EXCEPT !.pc = "returned"]
    /\ main' = [main EXCEPT !.pc = "verified", !.qsol = [v |-> vor.qsol_corrected, rad |-> 1]]
    /\ UNCHANGED <<lcu, hhl, post, job, poll, aws, run>>

\* lines 314-319: csol /= norm(csol), qsol /= norm(qsol)
MainNormalize ==
    /\ main.pc = "verified"
    /\ main' = [main EXCEPT !.pc = "normalized",
                            !.csol = [v |-> main.csol.v, rad |-> NormSq(main.csol.v)],
                            !.qsol = [v |-> main.qsol.v, rad |-> NormSq(main.qsol.v)]]
    /\ UNCHANGED <<lcu, hhl, vor, post, job, poll, aws, run>>

\* lines 321-324
MainCheck ==
    /\ main.pc = "normalized"
    /\ main' = IF TooFar(main.csol, main.qsol)
               THEN [main EXCEPT !.pc = "raised", !.raised = "RuntimeError"]
               ELSE [main EXCEPT !.pc = "finished"]
    /\ UNCHANGED <<lcu, hhl, vor, post, job, poll, aws, run>>

(***************************************************************************)
(* Claims about verification_of_result and the driver (SpecMain).          *)
(***************************************************************************)
UnitPhases == {<<1, 0>>, <<0, 1>>, <<-1, 0>>, <<0, -1>>}

\* C7: the returned real vector is the amplitude vector divided by one phase factor
\* of modulus one common to all components, so that relative signs are kept
C7_OneGlobalPhase ==
    vor.pc \in {"corrected", "returned"} =>
        \E u \in UnitPhases :
            \A i \in 1..Len(vor.qsol) : <<vor.qsol_corrected[i], 0>> = DivUnit(vor.qsol[i], u)

\* the relative error |c/|c| - q/|q|| / |c/|c|| of two non-zero integer vectors
\* exceeds 20%: its square is 2 - 2 cos, so the cosine c.q / (|c| |q|) is below 0.98
Exceeds20Percent(c, q) ==
    /\ NormSq(c) > 0 /\ NormSq(q) > 0
    /\ \/ Dot1(c, q) <= 0
       \/ 2500 * Dot1(c, q) * Dot1(c, q) < 2401 * NormSq(c) * NormSq(q)

\* C9: the driver ends with a RuntimeError exactly when the relative error between
\* the norm-normalized quantum and classical solutions exceeds 20%, and finishes
\* without raising when it is at most 20%
C9_RaisesIffOver20 ==
    /\ main.pc = "raised" =>
          main.raised = "RuntimeError" /\ Exceeds20Percent(vor.sol_classical, vor.qsol_corrected)
    /\ main.pc = "finished" => ~Exceeds20Percent(vor.sol_classical, vor.qsol_corrected)

\* a run that raised although the two solutions point less than 90 degrees apart
C9_Witness ==
    /\ main.pc = "raised"
    /\ Dot1(vor.sol_classical, vor.qsol_corrected) > 0

\* a run that finished with a relative error above zero
C9_WitnessFinished ==
    /\ main.pc = "finished"
    /\ NormSq(vor.sol_classical) > 0 /\ NormSq(vor.qsol_corrected) > 0
    /\ Dot1(vor.sol_classical, vor.qsol_corrected) * Dot1(vor.sol_classical, vor.qsol_corrected)
         # NormSq(vor.sol_classical) * NormSq(vor.qsol_corrected)

SolVals == (0 - MaxSol)..MaxSol

\* an amplitude vector with at most two non-zero entries
SparseAmp(d, a, i, b, j) == [k \in 1..d |-> IF k = i THEN a ELSE IF k = j THEN b ELSE CZero]

(***************************************************************************)
(* vqls_qiskit_implementation.py: postprocess_solution.                    *)
(*                                                                         *)
(* matrix_a, vector_b and solution_x are real.  The factor                 *)
(* norm(vector_b) / norm(lhs) is kept as [num2, den2], the value           *)
(* sqrt(num2 / den2); a den2 of 0 is the division by a zero norm.          *)
(***************************************************************************)
Abs(x) == IF x < 0 THEN 0 - x ELSE x

\* np.matmul(matrix_a, solution_x) for a real matrix and a vector
MatVec(m, x) ==
    [i \in 1..m.shape[1] |->
        ISum([k \in 1..m.shape[2] |-> m.at[<<i - 1, k - 1>>][1] * x[k]], 1, m.shape[2])]

Negate(x) == [i \in 1..Len(x) |-> 0 - x[i]]

\* line 73, with the norm of solution_x in the place of the norm of lhs
NormalizationByX(vector_b, lhs, solution_x) == [num2 |-> NormSq(vector_b), den2 |-> NormSq(solution_x)]

\* line 73
Normalization(vector_b, lhs, solution_x) == [num2 |-> NormSq(vector_b), den2 |-> NormSq(lhs)]

\* lines 79 and 81, a comparison of the signs that takes a zero for a mismatch
SameSignProduct(bi, li) == bi * li > 0

\* lines 79 and 81
SameSign(bi, li) == Abs(bi) + Abs(li) = Abs(bi + li)

\* lines 82-83, without the break
NeverBreaks(same_sign) == FALSE

\* lines 82-83: if not same_sign: break
Breaks(same_sign) == ~same_sign

\* the d x d matrix a * I + c * J, J the exchange matrix
PostMatrix(d, a, c) ==
    Mat(d, d, LAMBDA i, j: <<(IF i = j THEN a ELSE 0) + (IF i + j = d - 1 THEN c ELSE 0), 0>>)

PostIdle == [pc |-> "idle", matrix_a |-> ConstMat(0, 0, 0), vector_b |-> <<>>, solution_x |-> <<>>,
             lhs |-> <<>>,
             normalization |-> [num2 |-> 0, den2 |-> 1],
             normalized_solution |-> [v |-> <<>>, scale |-> [num2 |-> 0, den2 |-> 1]],
             i |-> 0, same_sign |-> TRUE, same_sign_bound |-> FALSE, negated |-> FALSE,
             ret |-> <<>>, raised |-> ""]

PostStart(matrix_a, vector_b, solution_x) ==
    [PostIdle EXCEPT !.pc = "start", !.matrix_a = matrix_a, !.vector_b = vector_b,
                     !.solution_x = solution_x]

\* lines 72-74
PostNormalize ==
    /\ post.pc = "start"
    /\ LET lhs == MatVec(post.matrix_a, post.solution_x)
           normalization == Normalization(post.vector_b, lhs, post.solution_x)
       IN post' = [post EXCEPT !.pc = "loop", !.lhs = lhs, !.normalization = normalization,
                               !.normalized_solution = [v |-> post.solution_x, scale |-> normalization],
                               !.i = 0]
    /\ UNCHANGED <<lcu, hhl, vor, main, job, poll, aws, run>>

\* lines 77-83, one iteration: i is the 1-based index of the last element looked at.
\* lhs is a vector (ndim 1, line 79) or a 1 x n row (ndim 2, line 81): lhs[i] and
\* lhs[0, i] read the same element, so the two branches are one
PostSignStep ==
    /\ post.pc = "loop"
    /\ post.i < Len(post.vector_b)
    /\ LET i == post.i + 1
           same_sign == SameSign(post.vector_b[i], post.lhs[i])
       IN post' = [post EXCEPT !.i = i, !.same_sign = same_sign, !.same_sign_bound = TRUE,
                               !.pc = IF Breaks(same_sign) THEN "after_loop" ELSE "loop"]
    /\ UNCHANGED <<lcu, hhl, vor, main, job, poll, aws, run>>

\* line 77: the loop has run over every element
PostLoopEnd ==
    /\ post.pc = "loop"
    /\ post.i = Len(post.vector_b)
    /\ post' = [post EXCEPT !.pc = "after_loop"]
    /\ UNCHANGED <<lcu, hhl, vor, main, job, poll, aws, run>>

\* lines 84-85; the name same_sign is unbound when the loop never ran
PostFlip ==
    /\ post.pc = "after_loop"
    /\ post' = IF ~post.same_sign_bound
               THEN [post EXCEPT !.pc = "raised", !.raised = "UnboundLocalError"]
               ELSE IF ~post.same_sign
               THEN [post EXCEPT !.pc = "flipped", !.negated = TRUE,
                                 !.normalized_solution.v = Negate(post.normalized_solution.v)]
               ELSE [post EXCEPT !.pc = "flipped"]
    /\ UNCHANGED <<lcu, hhl, vor, main, job, poll, aws, run>>

\* lines 88-91 for a problem that is not expanded (is_expanded returns False)
PostReturn ==
    /\ post.pc = "flipped"
    /\ post' = [post EXCEPT !.pc = "returned", !.ret = post.normalized_solution]
    /\ UNCHANGED <<lcu, hhl, vor, main, job, poll, aws, run>>

(***************************************************************************)
(* Claims about postprocess_solution (SpecPost).                           *)
(***************************************************************************)
\* the sign mismatch between b and Ax at index i
Mismatch(i) ==
    LET ax == MatVec(post.matrix_a, post.solution_x)
    IN Abs(post.vector_b[i]) + Abs(ax[i]) # Abs(post.vector_b[i] + ax[i])

SomeMismatch == \E i \in 1..Len(post.vector_b) : Mismatch(i)

\* C4: for a non-empty b, the solution is negated when some index has a sign mismatch
\* |b_i| + |(Ax)_i| # |b_i + (Ax)_i|, wherever that index lies, and keeps its sign when
\* none has
C4_FlipsIffMismatch ==
    (post.pc \in {"flipped", "returned"} /\ Len(post.vector_b) > 0) =>
        /\ post.negated <=> SomeMismatch
        /\ post.normalized_solution.v =
             IF SomeMismatch THEN Negate(post.solution_x) ELSE post.solution_x

\* a negated solution whose only mismatch is at the last index, of a vector longer
\* than one
C4_Witness ==
    /\ post.pc = "returned"
    /\ post.negated
    /\ Len(post.vector_b) > 1
    /\ Mismatch(Len(post.vector_b))
    /\ \A i \in 1..(Len(post.vector_b) - 1) : ~Mismatch(i)
    /\ post.ret.v # post.solution_x

\* C5: for a problem that is not zero-padded and an Ax # 0, the returned x' is x times
\* ||b|| / ||Ax|| up to the sign, hence ||A x'|| = ||b||: with x' = v * sqrt(num2 / den2),
\* v is x or -x, num2 / den2 = ||b||^2 / ||Ax||^2 and ||A v||^2 * num2 = ||b||^2 * den2
C5_RenormalizesToB ==
    post.pc = "returned" =>
        LET ax2 == NormSq(MatVec(post.matrix_a, post.solution_x))
        IN ax2 # 0 =>
            /\ post.ret.v \in {post.solution_x, Negate(post.solution_x)}
            /\ post.ret.scale.den2 > 0
            /\ post.ret.scale.num2 * ax2 = NormSq(post.vector_b) * post.ret.scale.den2
            /\ NormSq(MatVec(post.matrix_a, post.ret.v)) * post.ret.scale.num2
                 = NormSq(post.vector_b) * post.ret.scale.den2

\* a returned solution that was rescaled by a factor other than one, with a b # 0
C5_Witness ==
    /\ post.pc = "returned"
    /\ NormSq(MatVec(post.matrix_a, post.solution_x)) # 0
    /\ NormSq(post.vector_b) # 0
    /\ post.ret.scale.num2 # post.ret.scale.den2
    /\ NormSq(post.solution_x) # NormSq(MatVec(post.matrix_a, post.solution_x))

\* the signs of b and Ax differ at an index before the last one and nowhere else
MismatchOnlyEarlier ==
    /\ Len(post.vector_b) > 1
    /\ \E i \in 1..(Len(post.vector_b) - 1) : Mismatch(i)
    /\ ~Mismatch(Len(post.vector_b))

\* C10, as claimed: the global sign is decided from the last index only, so a mismatch
\* at an earlier index alone is lost and the solution is returned without the flip
C10_EarlierMismatchLost ==
    (post.pc = "returned" /\ MismatchOnlyEarlier) => ~post.negated

\* C10, amended: the loop stops at the first index with a mismatch, so same_sign is
\* that index's False; a mismatch at an earlier index alone is kept and the solution
\* is returned with the flip.  Without any mismatch the loop ends at the last index.
C10_FirstMismatchDecides ==
    (post.pc \in {"after_loop", "flipped", "returned"} /\ Len(post.vector_b) > 0) =>
        /\ SomeMismatch =>
              /\ Mismatch(post.i)
              /\ \A k \in 1..(post.i - 1) : ~Mismatch(k)
              /\ post.same_sign = FALSE
        /\ ~SomeMismatch => (post.i = Len(post.vector_b) /\ post.same_sign = TRUE)
        /\ (post.pc = "returned" /\ MismatchOnlyEarlier) => post.negated

\* a returned, negated solution whose only mismatch is at the first of several indices
C10_Witness ==
    /\ post.pc = "returned"
    /\ MismatchOnlyEarlier
    /\ post.negated
    /\ post.i < Len(post.vector_b)

(***************************************************************************)
(* aws_execution.py: check_task_status, and the remote task it polls.      *)
(*                                                                         *)
(* The task belongs to the SDK: its status moves QUEUED -> RUNNING -> DONE *)
(* or ERROR, or to CANCELLED, and stays in the final one; the code only    *)
(* reads it.                                                               *)
(***************************************************************************)
JobStatuses == {"QUEUED", "RUNNING", "DONE", "ERROR", "CANCELLED"}

\* qiskit's JOB_FINAL_STATES
FinalStatuses == {"DONE", "ERROR", "CANCELLED"}

\* seconds_interval: int = 10
DefaultInterval == 10

JobIdle == [status |-> "NONE", queue_position |-> 0]

\* queried, sleeps and read_position are the history of the call: whether a status
\* query was made, the number of sleeps since the last one, and whether the
\* iteration of that query has read the queue position
PollIdle == [pc |-> "idle", seconds_interval |-> 0, status |-> "NONE", printed |-> "",
             printed_position |-> -1, slept |-> 0,
             queried |-> FALSE, sleeps |-> 0, read_position |-> FALSE]

PollStart(seconds_interval) == [PollIdle EXCEPT !.pc = "query", !.seconds_interval = seconds_interval]

\* the SDK's side: the task leaves the queue, runs, and ends
JobAdvance ==
    /\ \/ /\ job.status = "QUEUED"
          /\ job.queue_position > 0
          /\ job' = [job EXCEPT !.queue_position = job.queue_position - 1]
       \/ /\ job.status = "QUEUED"
          /\ job' = [status |-> "RUNNING", queue_position |-> 0]
       \/ /\ job.status = "RUNNING"
          /\ \E st \in {"DONE", "ERROR"} : job' = [job EXCEPT !.status = st]
       \/ /\ job.status \in {"QUEUED", "RUNNING"}
          /\ job' = [status |-> "CANCELLED", queue_position |-> 0]
    /\ UNCHANGED <<lcu, hhl, vor, main, post, poll, aws, run>>

\* line 67: status == JobStatus.DONE
LeavesLoop(status) == status = "DONE"

\* line 74, with the queue position read whatever the status
ReadsPositionAlways(status) == TRUE

\* line 74: status == JobStatus.QUEUED
ReadsPosition(status) == status = "QUEUED"

\* lines 65-66
PollQuery ==
    /\ poll.pc = "query"
    /\ poll' = [poll EXCEPT !.pc = "branch", !.status = job.status,
                            !.queried = TRUE, !.sleeps = 0, !.read_position = FALSE]
    /\ UNCHANGED <<lcu, hhl, vor, main, post, job, aws, run>>

\* lines 67-69
PollDone ==
    /\ poll.pc = "branch"
    /\ LeavesLoop(poll.status)
    /\ poll' = [poll EXCEPT !.pc = "returned", !.printed = "is done!"]
    /\ UNCHANGED <<lcu, hhl, vor, main, post, job, aws, run>>

\* lines 70-77
PollNotDone ==
    /\ poll.pc = "branch"
    /\ ~LeavesLoop(poll.status)
    /\ poll' = IF ReadsPosition(poll.status)
               THEN [poll EXCEPT !.pc = "sleep", !.printed = "Current status, position in the queue",
                                 !.printed_position = job.queue_position, !.read_position = TRUE]
               ELSE [poll EXCEPT !.pc = "sleep", !.printed = "Current status"]
    /\ UNCHANGED <<lcu, hhl, vor, main, post, job, aws, run>>

\* line 78
PollSleep ==
    /\ poll.pc = "sleep"
    /\ poll' = [poll EXCEPT !.pc = "query", !.slept = poll.seconds_interval,
                            !.sleeps = poll.sleeps + 1]
    /\ UNCHANGED <<lcu, hhl, vor, main, post, job, aws, run>>

PollStep == PollQuery \/ PollDone \/ PollNotDone \/ PollSleep

(***************************************************************************)
(* Claims about check_task_status (SpecPoll, SpecPollFair).                *)
(***************************************************************************)
\* C6: once the remote job has reached a final status (done, failed/error or
\* cancelled), check_task_status eventually returns instead of polling forever
C6_ReturnsOnFinalStatus ==
    [](job.status \in FinalStatuses => <>(poll.pc = "returned"))

\* the call has returned only on a query that gave DONE; a query after the first
\* comes after exactly one sleep, of seconds_interval; the queue position is read
\* only in an iteration that saw QUEUED
PollHistoryOk ==
    /\ poll.pc = "returned" => poll.queried /\ poll.status = "DONE" /\ job.status = "DONE"
    /\ (poll.pc = "query" /\ poll.queried) => poll.sleeps = 1 /\ poll.slept = poll.seconds_interval
    /\ (poll.pc = "query" /\ ~poll.queried) => poll.sleeps = 0
    /\ poll.pc \in {"branch", "sleep", "returned"} => poll.sleeps = 0
    /\ poll.read_position => poll.status = "QUEUED"

\* a step of the call leaves the job handle as it is, and after the return the
\* call takes no step: no query and no sleep
PollStepOk ==
    /\ poll' # poll => job' = job
    /\ poll.pc = "returned" => poll' = poll

\* C11: check_task_status returns only after a status query has returned DONE
\* and queries and sleeps no more after that; between two consecutive queries it
\* sleeps exactly once, for seconds_interval; it reads the queue position only in
\* an iteration whose observed status is QUEUED; it never writes the job handle
C11_PollsReadOnlyUntilDone ==
    [][PollStepOk]_vars /\ []PollHistoryOk

\* the call has returned after a QUEUED iteration that read the position and a
\* later sleep of seconds_interval before the query that gave DONE
C11_Witness ==
    /\ poll.pc = "returned"
    /\ poll.status = "DONE"
    /\ poll.printed_position >= 0
    /\ poll.slept = poll.seconds_interval
    /\ poll.slept > 0

(***************************************************************************)
(* aws_execution.py: run_real_device_aws.                                  *)
(*                                                                         *)
(* outcome tells how the call ended, "returned" or "raised", and value     *)
(* what it returned or raised.                                             *)
(***************************************************************************)
\* lines 41-46: the device names the function knows
KnownDevices == {"ionq", "rigetti", "oqc"}

\* names the function does not know
UnknownDevices == {"sv1", "IonQ", ""}

\* lines 41-46: provider.get_backend(...)
BackendName(device_name) ==
    IF device_name = "ionq" THEN "IonQ Device"
    ELSE IF device_name = "rigetti" THEN "Aspen-M-1"
    ELSE "Lucy"

\* lines 47-48: return ValueError(...), the exception object as the returned value
UnknownDevice(device_name) ==
    [outcome |-> "returned", value |-> <<"ValueError", device_name, "not in the list of known device names.">>]

RunIdle == [pc |-> "idle", device_name |-> "", provider |-> FALSE, backend |-> "",
            submitted |-> FALSE, outcome |-> "", value |-> <<>>]

RunStart(device_name) == [RunIdle EXCEPT !.pc = "provider", !.device_name = device_name]

\* line 39
RunProvider ==
    /\ run.pc = "provider"
    /\ run' = [run EXCEPT !.pc = "select", !.provider = TRUE]
    /\ UNCHANGED <<lcu, hhl, vor, main, post, job, poll, aws>>

\* lines 41-48
RunSelect ==
    /\ run.pc = "select"
    /\ run' = IF run.device_name \in KnownDevices
              THEN [run EXCEPT !.pc = "submit", !.backend = BackendName(run.device_name)]
              ELSE [run EXCEPT !.pc = "ended",
                               !.outcome = UnknownDevice(run.device_name).outcome,
                               !.value = UnknownDevice(run.device_name).value]
    /\ UNCHANGED <<lcu, hhl, vor, main, post, job, poll, aws>>

\* lines 50-54: the task is submitted and retrieved, and check_task_status is
\* entered with the default interval
RunSubmit ==
    /\ run.pc = "submit"
    /\ run' = [run EXCEPT !.pc = "poll", !.submitted = TRUE]
    /\ \E q \in 0..MaxQueue : job' = [status |-> "QUEUED", queue_position |-> q]
    /\ poll' = PollStart(DefaultInterval)
    /\ UNCHANGED <<lcu, hhl, vor, main, post, aws>>

\* lines 55-56, after check_task_status has returned; the function ends without
\* a return statement
RunResult ==
    /\ run.pc = "poll"
    /\ poll.pc = "returned"
    /\ run' = [run EXCEPT !.pc = "ended", !.outcome = "returned", !.value = <<"None">>]
    /\ UNCHANGED <<lcu, hhl, vor, main, post, job, poll, aws>>

(***************************************************************************)
(* Claims about run_real_device_aws (SpecRun).                             *)
(***************************************************************************)
\* C12: run_real_device_aws called with a device name other than "ionq",
\* "rigetti" or "oqc" ends by raising ValueError to its caller, not by returning
\* a value, and has then obtained no backend, submitted no task and polled no
\* task status
C12_UnknownDeviceRaises ==
    (run.pc = "ended" /\ run.device_name \notin KnownDevices)
        => /\ run.outcome = "raised"
           /\ run.value[1] = "ValueError"
           /\ run.backend = ""
           /\ ~run.submitted
           /\ job = JobIdle
           /\ poll = PollIdle

(***************************************************************************)
(* aws_execution.py, __main__: the loop over the account's IAM roles.      *)
(*                                                                         *)
(* An error is a record of its class and, for a botocore ClientError, the  *)
(* code of the service's error response.  stage names the call that raised *)
(* it.                                                                     *)
(***************************************************************************)
NoError == [cls |-> "", code |-> ""]

\* the service's error responses, which botocore raises as ClientError
ClientErrors == {[cls |-> "ClientError", code |-> c] : c \in {"AccessDeniedException", "ValidationException"}}

\* anything else a call can raise
OtherErrors == {[cls |-> "RuntimeError", code |-> ""]}

Errors == ClientErrors \cup OtherErrors

NoMessage == [text |-> "", arg |-> ""]

\* the calls inside the try block, lines 127-175
TryStages == {"submit", "poll", "read", "cost"}

\* line 176, catching only the access-denied response
CaughtAccessDeniedOnly(error) == error.cls = "ClientError" /\ error.code = "AccessDeniedException"

\* line 176: except botocore.exceptions.ClientError
Caught(error) == error.cls = "ClientError"

\* lines 178-183
HandlerMessage(error, role) ==
    IF error.code = "AccessDeniedException"
    THEN [text |-> "Access denied for role: ", arg |-> role]
    ELSE [text |-> "Unexpected error occurred: ", arg |-> error.code]

\* roles["Roles"][i]["RoleName"]
RoleName(i) == <<"role", i>>

AwsIdle == [pc |-> "idle", n |-> 0, idx |-> 0, error |-> NoError, raised |-> <<>>, stage |-> <<>>,
            printed |-> <<>>, escaped |-> NoError]

\* line 117: the account has n roles
AwsStart(n) == [AwsIdle EXCEPT !.pc = "for", !.n = n,
                               !.raised = [i \in 1..n |-> NoError],
                               !.stage = [i \in 1..n |-> ""],
                               !.printed = [i \in 1..n |-> NoMessage]]

\* an error raised by a call of the try block: the except clause takes it, or it leaves the script
Raise(error, stage) ==
    [aws EXCEPT !.pc = IF Caught(error) THEN "except" ELSE "crashed",
                !.error = IF Caught(error) THEN error ELSE NoError,
                !.escaped = IF Caught(error) THEN NoError ELSE error,
                !.raised[aws.idx] = error,
                !.stage[aws.idx] = stage]

\* lines 119-120
AwsNextRole ==
    /\ aws.pc = "for"
    /\ aws' = IF aws.idx < aws.n
              THEN [aws EXCEPT !.pc = "policies", !.idx = aws.idx + 1]
              ELSE [aws EXCEPT !.pc = "done"]
    /\ UNCHANGED <<lcu, hhl, vor, main, post, job, poll, run>>

\* lines 122-125, outside the try block
AwsListPolicies ==
    /\ aws.pc = "policies"
    /\ \/ aws' = [aws EXCEPT !.pc = "submit"]
       \/ \E error \in Errors :
             aws' = [aws EXCEPT !.pc = "crashed", !.escaped = error,
                                !.raised[aws.idx] = error, !.stage[aws.idx] = "policies"]
    /\ UNCHANGED <<lcu, hhl, vor, main, post, job, poll, run>>

\* lines 127-164: the job is created and check_task_status is entered
AwsSubmit ==
    /\ aws.pc = "submit"
    /\ \/ /\ aws' = [aws EXCEPT !.pc = "poll"]
          /\ \E q \in 0..MaxQueue : job' = [status |-> "QUEUED", queue_position |-> q]
          /\ poll' = PollStart(DefaultInterval)
       \/ /\ \E error \in Errors : aws' = Raise(error, "submit")
          /\ UNCHANGED <<job, poll>>
    /\ UNCHANGED <<lcu, hhl, vor, main, post, run>>

\* line 65 raising inside check_task_status
AwsPollRaises ==
    /\ aws.pc = "poll"
    /\ poll.pc = "query"
    /\ \E error \in Errors : aws' = Raise(error, "poll")
    /\ poll' = [poll EXCEPT !.pc = "raised"]
    /\ UNCHANGED <<lcu, hhl, vor, main, post, job, run>>

\* lines 167-174, after check_task_status has returned
AwsRead ==
    /\ aws.pc = "poll"
    /\ poll.pc = "returned"
    /\ \/ aws' = [aws EXCEPT !.pc = "cost"]
       \/ \E error \in Errors : aws' = Raise(error, "read")
    /\ UNCHANGED <<lcu, hhl, vor, main, post, job, poll, run>>

\* line 175
AwsCost ==
    /\ aws.pc = "cost"
    /\ \/ aws' = [aws EXCEPT !.pc = "for"]
       \/ \E error \in Errors : aws' = Raise(error, "cost")
    /\ UNCHANGED <<lcu, hhl, vor, main, post, job, poll, run>>

\* lines 176-183
AwsExcept ==
    /\ aws.pc = "except"
    /\ aws' = [aws EXCEPT !.pc = "for", !.error = NoError,
                          !.printed[aws.idx] = HandlerMessage(aws.error, RoleName(aws.idx))]
    /\ UNCHANGED <<lcu, hhl, vor, main, post, job, poll, run>>

(***************************************************************************)
(* Claims about the role loop (SpecAws).                                   *)
(***************************************************************************)
\* role r's error has been dealt with and the loop is at or past the next role
HandledAndWentOn(r) ==
    /\ aws.printed[r] = IF aws.raised[r].code = "AccessDeniedException"
                        THEN [text |-> "Access denied for role: ", arg |-> RoleName(r)]
                        ELSE [text |-> "Unexpected error occurred: ", arg |-> aws.raised[r].code]
    /\ aws.pc # "crashed" \/ aws.idx > r
    /\ aws.idx > r \/ aws.pc \in {"for", "done"}

\* C8: a provider error (botocore ClientError) raised while submitting, polling
\* or reading the job for a role is caught: AccessDeniedException prints the
\* access-denied message naming the role, any other code the generic message,
\* the error does not leave the script and the loop goes on to the next role
C8_ProviderErrorsCaught ==
    \A r \in 1..aws.n :
        (aws.raised[r] \in ClientErrors /\ aws.stage[r] \in TryStages)
            => \/ aws.idx = r /\ aws.pc = "except" /\ aws.error = aws.raised[r]
               \/ HandledAndWentOn(r)

\* both kinds of provider error were met, by two roles, and the loop ran to its end
C8_Witness ==
    /\ aws.pc = "done"
    /\ \E r1, r2 \in 1..aws.n :
          /\ r1 < r2
          /\ aws.raised[r1] = [cls |-> "ClientError", code |-> "AccessDeniedException"]
          /\ aws.stage[r1] = "poll"
          /\ aws.printed[r1].text = "Access denied for role: "
          /\ aws.raised[r2] = [cls |-> "ClientError", code |-> "ValidationException"]
          /\ aws.stage[r2] \in {"submit", "read"}
          /\ aws.printed[r2].text = "Unexpected error occurred: "

(***************************************************************************)
(* The specifications: one per part of the program.                        *)
(***************************************************************************)
InitLcu ==
    /\ \/ \E d \in PowersOfTwo, a \in Vals, b \in Vals :
             \E u1 \in 0..(d * d - 1), u2 \in 0..(d * d - 1) :
                 lcu = LcuStart(HermTwo(d, a, u1, b, u2))
       \/ \E r \in 0..MaxDim, c \in 0..MaxDim, v \in Vals :
             lcu = LcuStart(ConstMat(r, c, v))
    /\ hhl = HhlIdle
    /\ run = RunIdle
    /\ vor = VorIdle
    /\ main = MainIdle
    /\ post = PostIdle
    /\ job = JobIdle
    /\ poll = PollIdle
    /\ aws = AwsIdle

NextLcu ==
    \/ LcuAssertShape
    \/ LcuEnumerate
    \/ LcuLoopStep
    \/ LcuReturn

SpecLcu == InitLcu /\ [][NextLcu]_vars

InitHhl ==
    /\ \E d \in PowersOfTwo, a \in Vals, b \in Vals :
          \E u1 \in 0..(d * d - 1), u2 \in 0..(d * d - 1), i \in 1..d, j \in 1..d, x \in Vals, y \in Vals :
              /\ d > 2 => (b = 0 /\ u2 = 0)
              /\ hhl = HhlStart(HermTwo(d, a, u1, b, u2), SparseVec(d, x, i, y, j), Precision)
    /\ lcu = LcuIdle
    /\ run = RunIdle
    /\ vor = VorIdle
    /\ main = MainIdle
    /\ post = PostIdle
    /\ job = JobIdle
    /\ poll = PollIdle
    /\ aws = AwsIdle

NextHhl ==
    \/ HhlDecompose
    \/ HhlNormalize
    \/ HhlQpe
    \/ HhlReturn

SpecHhl == InitHhl /\ [][NextHhl]_vars

InitMain ==
    /\ \E d \in 1..MaxLen, i \in 1..MaxLen, j \in 1..MaxLen, k \in 1..MaxLen, l \in 1..MaxLen :
          \E a \in SolVals, b \in Vals, p \in AxisAmplitudes, q \in AxisAmplitudes :
              /\ i <= d /\ j <= d /\ k <= d /\ l <= d
              /\ main = MainStart(SparseVec(d, a, i, b, j))
              /\ vor = VorStart(SparseAmp(d, p, k, q, l), SparseVec(d, a, i, b, j))
    /\ lcu = LcuIdle
    /\ run = RunIdle
    /\ hhl = HhlIdle
    /\ post = PostIdle
    /\ job = JobIdle
    /\ poll = PollIdle
    /\ aws = AwsIdle

NextMain ==
    \/ VorPhase
    \/ VorCorrect
    \/ VorReturn
    \/ MainNormalize
    \/ MainCheck

SpecMain == InitMain /\ [][NextMain]_vars

\* vector_b and solution_x run over every vector of length d, matrix_a over the
\* matrices a * I + c * J
InitPost ==
    /\ \E d \in 0..MaxLen, a \in Vals, c \in 0..1 :
          \E vector_b \in [1..d -> Vals], solution_x \in [1..d -> Vals] :
              post = PostStart(PostMatrix(d, a, c), vector_b, solution_x)
    /\ lcu = LcuIdle
    /\ run = RunIdle
    /\ hhl = HhlIdle
    /\ vor = VorIdle
    /\ main = MainIdle
    /\ job = JobIdle
    /\ poll = PollIdle
    /\ aws = AwsIdle

NextPost ==
    \/ PostNormalize
    \/ PostSignStep
    \/ PostLoopEnd
    \/ PostFlip
    \/ PostReturn

SpecPost == InitPost /\ [][NextPost]_vars

\* check_task_status is called on a task in any status
InitPoll ==
    /\ \E st \in JobStatuses, q \in 0..MaxQueue :
          job = [status |-> st, queue_position |-> IF st = "QUEUED" THEN q ELSE 0]
    /\ \E seconds_interval \in {DefaultInterval} \cup (1..MaxInterval) :
          poll = PollStart(seconds_interval)
    /\ lcu = LcuIdle
    /\ run = RunIdle
    /\ hhl = HhlIdle
    /\ vor = VorIdle
    /\ main = MainIdle
    /\ post = PostIdle
    /\ aws = AwsIdle

NextPoll ==
    \/ JobAdvance
    \/ PollQuery
    \/ PollDone
    \/ PollNotDone
    \/ PollSleep

SpecPoll == InitPoll /\ [][NextPoll]_vars

\* the loop is the only thread: each of its steps is taken, and time.sleep returns
\* the script has listed the account's roles
InitAws ==
    /\ \E n \in 0..MaxRoles : aws = AwsStart(n)
    /\ lcu = LcuIdle
    /\ run = RunIdle
    /\ hhl = HhlIdle
    /\ vor = VorIdle
    /\ main = MainIdle
    /\ post = PostIdle
    /\ job = JobIdle
    /\ poll = PollIdle

NextAws ==
    \/ AwsNextRole
    \/ AwsListPolicies
    \/ AwsSubmit
    \/ JobAdvance
    \/ PollQuery
    \/ PollDone
    \/ PollNotDone
    \/ PollSleep
    \/ AwsPollRaises
    \/ AwsRead
    \/ AwsCost
    \/ AwsExcept

SpecAws == InitAws /\ [][NextAws]_vars

\* run_real_device_aws is called with a known or an unknown device name
InitRun ==
    /\ \E device_name \in KnownDevices \cup UnknownDevices : run = RunStart(device_name)
    /\ lcu = LcuIdle
    /\ hhl = HhlIdle
    /\ vor = VorIdle
    /\ main = MainIdle
    /\ post = PostIdle
    /\ job = JobIdle
    /\ poll = PollIdle
    /\ aws = AwsIdle

NextRun ==
    \/ RunProvider
    \/ RunSelect
    \/ RunSubmit
    \/ JobAdvance
    \/ PollQuery
    \/ PollDone
    \/ PollNotDone
    \/ PollSleep
    \/ RunResult

SpecRun == InitRun /\ [][NextRun]_vars

SpecPollFair == InitPoll /\ [][NextPoll]_vars /\ WF_vars(PollStep)

====
